---------------------------- MODULE Spec2Model ----------------------------
(***************************************************************************)
(* Ring setup and teardown of liburing (src/src/setup.c): depth            *)
(* negotiation, the kernel-mapping and the contiguous-memory strategies,   *)
(* io_uring_queue_exit, the feature probe and the memlock estimator.       *)
(*                                                                         *)
(* The C functions are modelled as operators over a "machine" record m     *)
(* (resident address ranges, words the kernel published in ring memory,    *)
(* open descriptors, live heap blocks and the log of host calls).  Each    *)
(* public entry point is one action; the host's possible failures are      *)
(* inputs of the action (env).                                             *)
(***************************************************************************)
EXTENDS Integers, Sequences, FiniteSets, TLC

VARIABLES
    ring,     \* ring[h]: the struct io_uring of handle h
    status,   \* status[h]: "uninit", "ready", "failed" or "exited"
    place,    \* place[h]: buffer, size and result of the init that made ring[h]
    trace,    \* trace[h]: host calls made by the init of ring[h] and by its exit
    mach,     \* resident memory, published words, open descriptors, heap
    last,     \* the last entry point that ran and what it returned
    neg       \* inputs and outputs of one depth negotiation / layout computation

vars == <<ring, status, place, trace, mach, last, neg>>

---------------------------------------------------------------------------
(* Program constants *)

KERN_MAX_ENTRIES == 32768
KERN_MAX_CQ_ENTRIES == 2 * KERN_MAX_ENTRIES
huge_page_size == 2 * 1024 * 1024
KRING_SIZE == 320
SizeofSqe == 64
SizeofCqe == 16
SizeofUnsigned == 4
PageSize == 4096
EINVAL == 22
ENOMEM == 12

(* Bounds of the model *)

MaxSmallDepth == 3      \* every depth 0..MaxSmallDepth is tried
BufPages == 8           \* pages in the application's buffer
MaxProbeOps == 2        \* operations a probe query may report: 0..MaxProbeOps

---------------------------------------------------------------------------
(* Integer helpers of setup.c *)

RECURSIVE BitLen(_)
BitLen(x) == IF x = 0 THEN 0 ELSE 1 + BitLen(x \div 2)

\* __fls(int x): 0 for 0, else 32 - clz(x); a negative int has its top bit set
__fls(x) == IF x = 0 THEN 0 ELSE IF x < 0 THEN 32 ELSE BitLen(x)

roundup_pow2_skew(depth) == 2 ^ __fls(depth)

\* roundup_pow2: 1UL << __fls(depth - 1)
roundup_pow2(depth) == 2 ^ __fls(depth - 1)

\* (x + page_size - 1) & ~(page_size - 1), page_size a power of two
PageUp(x) == ((x + PageSize - 1) \div PageSize) * PageSize

\* (x + 63) & ~63UL
Align64(x) == ((x + 63) \div 64) * 64

---------------------------------------------------------------------------
(* Depth negotiation *)

get_sq_cq_entries_nocheck(entries, p, sq, cq) ==
    IF entries = 0 THEN [ret |-> -EINVAL, sq |-> sq, cq |-> cq]
    ELSE IF entries > KERN_MAX_ENTRIES /\ "CLAMP" \notin p.flags
    THEN [ret |-> -EINVAL, sq |-> sq, cq |-> cq]
    ELSE
      LET e1 == IF entries > KERN_MAX_ENTRIES THEN KERN_MAX_ENTRIES ELSE entries
          e2 == roundup_pow2(e1)
      IN IF "CQSIZE" \in p.flags
         THEN IF p.cq_entries = 0 THEN [ret |-> -EINVAL, sq |-> sq, cq |-> cq]
              ELSE IF p.cq_entries > KERN_MAX_CQ_ENTRIES /\ "CLAMP" \notin p.flags
              THEN [ret |-> -EINVAL, sq |-> sq, cq |-> cq]
              ELSE LET c1 == IF p.cq_entries > KERN_MAX_CQ_ENTRIES
                             THEN KERN_MAX_CQ_ENTRIES ELSE p.cq_entries
                       c2 == roundup_pow2(c1)
                   IN [ret |-> 0, sq |-> e2, cq |-> c2]
         ELSE [ret |-> 0, sq |-> e2, cq |-> 2 * e2]

\* get_sq_cq_entries(entries, p, &sq, &cq): sq and cq are the values the
\* output locations held before the call; they are written only on success.
get_sq_cq_entries(entries, p, sq, cq) ==
    IF entries = 0 THEN [ret |-> -EINVAL, sq |-> sq, cq |-> cq]
    ELSE IF entries > KERN_MAX_ENTRIES /\ "CLAMP" \notin p.flags
    THEN [ret |-> -EINVAL, sq |-> sq, cq |-> cq]
    ELSE
      LET e1 == IF entries > KERN_MAX_ENTRIES THEN KERN_MAX_ENTRIES ELSE entries
          e2 == roundup_pow2(e1)
      IN IF "CQSIZE" \in p.flags
         THEN IF p.cq_entries = 0 THEN [ret |-> -EINVAL, sq |-> sq, cq |-> cq]
              ELSE IF p.cq_entries > KERN_MAX_CQ_ENTRIES /\ "CLAMP" \notin p.flags
              THEN [ret |-> -EINVAL, sq |-> sq, cq |-> cq]
              ELSE LET c1 == IF p.cq_entries > KERN_MAX_CQ_ENTRIES
                             THEN KERN_MAX_CQ_ENTRIES ELSE p.cq_entries
                       c2 == roundup_pow2(c1)
                   IN IF c2 < e2 THEN [ret |-> -EINVAL, sq |-> sq, cq |-> cq]
                      ELSE [ret |-> 0, sq |-> e2, cq |-> c2]
         ELSE [ret |-> 0, sq |-> e2, cq |-> 2 * e2]

---------------------------------------------------------------------------
(* Layout calculator *)

npages_floor(size, page_size) == __fls(size \div page_size)

\* npages(size, page_size): size--; size /= page_size; return __fls(size)
npages(size, page_size) == __fls((size - 1) \div page_size)

\* rings_size(entries, cq_entries, page_size)
rings_size(entries, cq_entries, page_size) ==
    LET cq_size == Align64(KRING_SIZE + cq_entries * SizeofCqe)
        pages1 == 2 ^ npages(cq_size, page_size)
        sq_size == SizeofSqe * entries
        pages2 == pages1 + 2 ^ npages(sq_size, page_size)
    IN pages2 * page_size

---------------------------------------------------------------------------
(* The host: address space, descriptors, heap.                             *)
(* m.mem   : resident ranges [lo, hi) with the kind of mapping they came   *)
(*           from ("caller" is the application's own buffer)               *)
(* m.words : ring-entries words the kernel published in ring memory        *)
(* m.fds   : open ring descriptors;  m.heap : live malloc blocks           *)
(* m.calls : host calls of the running entry point, in order               *)

SlotSize == 4 * 1024 * 1024
NSlots == 8
BufBase == 16 * SlotSize
BufSize == BufPages * PageSize

IS_ERR(ptr) == ptr < 0

Call(op, addr, len, kind) == [op |-> op, addr |-> addr, len |-> len, kind |-> kind]

Log(m, c) == [m EXCEPT !.calls = Append(@, c)]

NumCalls(calls, op) == Cardinality({i \in DOMAIN calls : calls[i].op = op})

\* the lowest free slot of the address space
FreeAddr(mem) ==
    LET free == {k \in 1..NSlots :
                   \A r \in mem : r.hi <= k * SlotSize \/ r.lo >= (k + 1) * SlotSize}
    IN SlotSize * (CHOOSE k \in free : \A j \in free : k <= j)

\* what is left of range r when [a, b) is removed
Cut(r, a, b) ==
    (IF r.lo < a THEN {[r EXCEPT !.hi = IF r.hi < a THEN r.hi ELSE a]} ELSE {})
    \cup (IF r.hi > b THEN {[r EXCEPT !.lo = IF r.lo > b THEN r.lo ELSE b]} ELSE {})

\* a fresh mapping of len bytes at address a
Mapped(m, a, len, kind) ==
    [ptr |-> a,
     m |-> Log([m EXCEPT !.mem = @ \cup {[lo |-> a, hi |-> a + PageUp(len),
                                         own |-> kind]}],
               Call("mmap", a, len, kind))]

\* uring_mmap(NULL, len, ..., fd, off): env.mfail names the mmap call of the
\* entry point that the host refuses (0: none); the result is the address
\* or an error pointer
uring_mmap(m, len, kind, env) ==
    IF NumCalls(m.calls, "mmap") + 1 = env.mfail
    THEN [ptr |-> -ENOMEM, m |-> Log(m, Call("mmap", -ENOMEM, len, kind))]
    ELSE Mapped(m, FreeAddr(m.mem), len, kind)

\* uring_munmap(addr, len): removes [addr, addr + len) rounded to pages;
\* the host rejects an unaligned or negative address and a zero length
uring_munmap(m, addr, len) ==
    Log(IF addr >= 0 /\ addr % PageSize = 0 /\ len > 0
        THEN [m EXCEPT !.mem = UNION {Cut(r, addr, addr + PageUp(len)) : r \in m.mem},
                       !.words = {w \in @ : w.addr < addr \/ w.addr >= addr + PageUp(len)}]
        ELSE m,
        Call("munmap", addr, len, "mem"))

\* uring_close(fd)
uring_close(m, fd) ==
    Log([m EXCEPT !.fds = @ \ {fd}], Call("close", fd, 0, "fd"))

\* memset(ptr, 0, len)
memset0(m, ptr, len) ==
    Log([m EXCEPT !.words = {IF w.addr >= ptr /\ w.addr < ptr + len
                             THEN [w EXCEPT !.val = 0] ELSE w : w \in @}],
        Call("memset", ptr, len, "mem"))

\* *ptr for a ring-entries word; a read outside the published words is
\* undefined and yields whatever the caller of Deref supplies as garbage
Deref(m, ptr, garbage) ==
    IF \E w \in m.words : w.addr = ptr
    THEN (CHOOSE w \in m.words : w.addr = ptr).val
    ELSE garbage

\* the read *ptr as a step of the running entry point
Load(m, ptr) == Log(m, Call("load", ptr, 0, "mem"))

\* uring_madvise(addr, len, MADV_DONTFORK): the host rejects a negative or
\* unaligned address; afail names the madvise call it refuses (0: none)
uring_madvise(m, addr, len, afail) ==
    [ret |-> IF addr < 0 \/ addr % PageSize # 0 THEN -EINVAL
             ELSE IF NumCalls(m.calls, "madvise") + 1 = afail THEN -ENOMEM
             ELSE 0,
     m |-> Log(m, Call("madvise", addr, len, "mem")),
     fault |-> FALSE]

Pow2s == {2 ^ k : k \in 0..17}

\* the smallest power of two >= d (1 <= d <= 2^17)
Pow2Ceil(d) == CHOOSE q \in Pow2s : q >= d /\ \A r \in Pow2s : r >= d => q <= r

\* The kernel's own validation of a creation request (spec 4.1)
KernDepths(entries, p) ==
    LET clamp == "CLAMP" \in p.flags
        cqsz == "CQSIZE" \in p.flags
        Decide(sq, cq) ==
            IF /\ entries >= 1 /\ (entries <= KERN_MAX_ENTRIES \/ clamp)
               /\ ~cqsz \/ (p.cq_entries >= 1
                            /\ (p.cq_entries <= KERN_MAX_CQ_ENTRIES \/ clamp))
               /\ cq >= sq
            THEN [ok |-> TRUE, sq |-> sq, cq |-> cq]
            ELSE [ok |-> FALSE, sq |-> 0, cq |-> 0]
        WithSq(sq) ==
            Decide(sq, IF ~cqsz THEN 2 * sq
                       ELSE IF p.cq_entries = 0 THEN 0
                       ELSE Pow2Ceil(IF p.cq_entries > KERN_MAX_CQ_ENTRIES
                                     THEN KERN_MAX_CQ_ENTRIES ELSE p.cq_entries))
    IN WithSq(IF entries = 0 THEN 0
              ELSE Pow2Ceil(IF entries > KERN_MAX_ENTRIES
                            THEN KERN_MAX_ENTRIES ELSE entries))

\* the lowest descriptor not in use
FreeFd(fds) == CHOOSE f \in 3..(3 + Cardinality(fds)) : f \notin fds

\* ____sys_io_uring_setup(entries, p): the creation primitive.  env.serr is
\* the error the kernel reports for its own reasons (0: none), env.features
\* the feature bits it reports.  On success it returns a new descriptor and
\* fills p; with caller memory (NO_MMAP) it publishes the ring in place.
____sys_io_uring_setup(m, entries, p, env) ==
    LET Created(k, fd) ==
            [ret |-> fd,
             p |-> [p EXCEPT !.sq_entries = k.sq, !.cq_entries = k.cq,
                             !.features = env.features,
                             !.sq_off_ring_entries = 264,
                             !.cq_off_cqes = 64,
                             !.sq_off_array = Align64(64 + k.cq * SizeofCqe)],
             m |-> Log([m EXCEPT
                          !.fds = @ \cup {fd},
                          !.words = IF "NO_MMAP" \in p.flags
                                    THEN {w \in @ : w.addr # p.cq_user_addr + 264}
                                         \cup {[addr |-> p.cq_user_addr + 264,
                                                val |-> k.sq]}
                                    ELSE @],
                       Call("setup", fd, entries, "fd"))]
        Refused(err) ==
            [ret |-> -err, p |-> p, m |-> Log(m, Call("setup", -err, entries, "fd"))]
        Decide(k) == IF ~k.ok THEN Refused(EINVAL)
                     ELSE IF env.serr # 0 THEN Refused(env.serr)
                     ELSE Created(k, FreeFd(m.fds))
    IN Decide(KernDepths(entries, p))

---------------------------------------------------------------------------
(* struct io_uring and struct io_uring_params *)

\* memset(ring, 0, sizeof(*ring))
ZeroRing ==
    [sq_ring_ptr |-> 0, sq_ring_sz |-> 0, sq_sqes |-> 0, sq_kring_entries |-> 0,
     cq_ring_ptr |-> 0, cq_ring_sz |-> 0, cq_cqes |-> 0,
     flags |-> {}, internal_flags |-> {}, features |-> {}, ring_fd |-> 0]

\* a params structure as the caller prepares it
Params(flags, cq_entries) ==
    [flags |-> flags, cq_entries |-> cq_entries, sq_entries |-> 0, features |-> {},
     sq_off_ring_entries |-> 0, sq_off_array |-> 0, cq_off_cqes |-> 0,
     sq_user_addr |-> 0, cq_user_addr |-> 0]

\* what an init routine hands back: result, machine, ring and params
Out(ret, m, r, p) == [ret |-> ret, m |-> m, ring |-> r, p |-> p]

---------------------------------------------------------------------------
(* Region mapper *)

UnmapSq(m, r) ==
    IF r.sq_ring_sz # 0 THEN uring_munmap(m, r.sq_ring_ptr, r.sq_ring_sz) ELSE m

io_uring_unmap_rings_sq_only(m, r) == UnmapSq(m, r)

io_uring_unmap_rings_always_cq(m, r) ==
    IF r.cq_ring_ptr # 0 /\ r.cq_ring_sz # 0
    THEN uring_munmap(UnmapSq(m, r), r.cq_ring_ptr, r.cq_ring_sz)
    ELSE UnmapSq(m, r)

\* io_uring_unmap_rings(sq, cq)
io_uring_unmap_rings(m, r) ==
    IF r.cq_ring_ptr # 0 /\ r.cq_ring_sz # 0 /\ r.cq_ring_ptr # r.sq_ring_ptr
    THEN uring_munmap(UnmapSq(m, r), r.cq_ring_ptr, r.cq_ring_sz)
    ELSE UnmapSq(m, r)

\* io_uring_setup_ring_pointers(p, sq, cq): of the resolved field pointers
\* the model keeps sq->kring_entries and cq->cqes
io_uring_setup_ring_pointers(p, r) ==
    [r EXCEPT !.sq_kring_entries = r.sq_ring_ptr + p.sq_off_ring_entries,
              !.cq_cqes = r.cq_ring_ptr + p.cq_off_cqes]

\* the kernel exposes the ring-entries word in a ring region mapped from fd
Publish(m, ptr, p) ==
    [m EXCEPT !.words = {w \in @ : w.addr # ptr + p.sq_off_ring_entries}
                        \cup {[addr |-> ptr + p.sq_off_ring_entries,
                               val |-> p.sq_entries]}]

\* io_uring_mmap(fd, p, sq, cq)
io_uring_mmap(m, fd, p, r, env) ==
    LET single == "SINGLE_MMAP" \in p.features
        sz1 == p.sq_off_array + p.sq_entries * SizeofUnsigned
        cz1 == p.cq_off_cqes + p.cq_entries * SizeofCqe
        sqsz == IF single /\ cz1 > sz1 THEN cz1 ELSE sz1
        cqsz == IF single THEN sqsz ELSE cz1
        Fail(ret, m1, r1) == Out(ret, io_uring_unmap_rings(m1, r1), r1, p)
        AfterSqes(c, r2) ==
            IF IS_ERR(c.ptr) THEN Fail(c.ptr, c.m, [r2 EXCEPT !.sq_sqes = c.ptr])
            ELSE Out(0, c.m,
                     io_uring_setup_ring_pointers(p, [r2 EXCEPT !.sq_sqes = c.ptr]), p)
        AfterCq(b, r1) ==
            IF IS_ERR(b.ptr) THEN Fail(b.ptr, b.m, [r1 EXCEPT !.cq_ring_ptr = 0])
            ELSE AfterSqes(uring_mmap(b.m, p.sq_entries * SizeofSqe, "SQES", env),
                           [r1 EXCEPT !.cq_ring_ptr = b.ptr])
        AfterSq(a, r1) ==
            IF IS_ERR(a.ptr) THEN Out(a.ptr, a.m, [r1 EXCEPT !.sq_ring_ptr = a.ptr], p)
            ELSE IF single
            THEN AfterCq([ptr |-> a.ptr, m |-> Publish(a.m, a.ptr, p)],
                         [r1 EXCEPT !.sq_ring_ptr = a.ptr])
            ELSE AfterCq(uring_mmap(Publish(a.m, a.ptr, p), cqsz, "CQ_RING", env),
                         [r1 EXCEPT !.sq_ring_ptr = a.ptr])
    IN AfterSq(uring_mmap(m, sqsz, "SQ_RING", env),
               [r EXCEPT !.sq_ring_sz = sqsz, !.cq_ring_sz = cqsz])

\* io_uring_queue_mmap(fd, p, ring)
io_uring_queue_mmap(m, fd, p, env) == io_uring_mmap(m, fd, p, ZeroRing, env)

\* io_uring_ring_dontfork(ring).  Reading *sq.kring_entries where no ring
\* word is resident is undefined: ub.trap says whether the access traps,
\* ub.garbage what it yields if it does not.
io_uring_ring_dontfork(m, r, afail, ub) ==
    LET Third(c) == IF c.ret < 0 THEN c ELSE [c EXCEPT !.ret = 0]
        Second(b) ==
            IF b.ret < 0 THEN b
            ELSE IF r.cq_ring_ptr # r.sq_ring_ptr
            THEN Third(uring_madvise(b.m, r.cq_ring_ptr, r.cq_ring_sz, afail))
            ELSE [b EXCEPT !.ret = 0]
        First(a) ==
            IF a.ret < 0 THEN a
            ELSE Second(uring_madvise(a.m, r.sq_ring_ptr, r.sq_ring_sz, afail))
        Read(m1) ==
            IF (\A w \in m1.words : w.addr # r.sq_kring_entries) /\ ub.trap
            THEN [ret |-> 0, m |-> m1, fault |-> TRUE]
            ELSE First(uring_madvise(m1, r.sq_sqes,
                                     Deref(m1, r.sq_kring_entries, ub.garbage)
                                       * SizeofSqe,
                                     afail))
    IN IF r.sq_ring_ptr = 0 \/ r.sq_sqes = 0 \/ r.cq_ring_ptr = 0
       THEN [ret |-> -EINVAL, m |-> m, fault |-> FALSE]
       ELSE Read(Load(m, r.sq_kring_entries))

---------------------------------------------------------------------------
(* Contiguous allocator *)

io_uring_alloc_huge_unsized(m, entries, p, r, buf, buf_size, env) ==
    LET Done(n, sqes_mem, m2, r2) ==
            Out(PageUp(sqes_mem + n.sq * SizeofUnsigned + n.cq * SizeofUnsigned),
                m2, [r2 EXCEPT !.cq_ring_ptr = r2.sq_ring_ptr],
                [p EXCEPT !.sq_user_addr = r2.sq_sqes,
                          !.cq_user_addr = r2.sq_ring_ptr])
        Second(n, sqes_mem, b, r1, bsz) ==
            IF IS_ERR(b.ptr)
            THEN Out(b.ptr, uring_munmap(b.m, r1.sq_sqes, bsz), r1, p)
            ELSE Done(n, sqes_mem, memset0(b.m, b.ptr, bsz),
                      [r1 EXCEPT !.sq_ring_ptr = b.ptr, !.sq_ring_sz = bsz,
                                 !.cq_ring_sz = 0])
        Layout(n, sqes_mem, ring_mem, m1, r1, bsz) ==
            IF sqes_mem + ring_mem <= bsz
            THEN Done(n, sqes_mem, m1,
                      [r1 EXCEPT !.sq_ring_ptr = r1.sq_sqes + sqes_mem,
                                 !.cq_ring_sz = 0, !.sq_ring_sz = 0])
            ELSE Second(n, sqes_mem, uring_mmap(m1, bsz, "ANON", env), r1, bsz)
        First(n, sqes_mem, ring_mem, a, bsz) ==
            IF IS_ERR(a.ptr) THEN Out(a.ptr, a.m, r, p)
            ELSE Layout(n, sqes_mem, ring_mem, memset0(a.m, a.ptr, bsz),
                        [r EXCEPT !.sq_sqes = a.ptr], bsz)
        Sized(n, sqes_mem, ring_mem) ==
            IF buf # 0
            THEN First(n, sqes_mem, ring_mem, [ptr |-> buf, m |-> m], buf_size)
            ELSE First(n, sqes_mem, ring_mem,
                       uring_mmap(m, huge_page_size, "ANON", env), huge_page_size)
        Negotiated(n) ==
            IF n.ret # 0 THEN Out(n.ret, m, r, p)
            ELSE Sized(n, PageUp(n.sq * SizeofSqe),
                       n.cq * SizeofCqe + n.sq * SizeofUnsigned)
    IN Negotiated(get_sq_cq_entries(entries, p, 0, 0))

\* io_uring_alloc_huge(entries, p, sq, cq, buf, buf_size); buf = 0 is NULL
io_uring_alloc_huge(m, entries, p, r, buf, buf_size, env) ==
    LET Done(n, sqes_mem, m2, r2) ==
            Out(PageUp(sqes_mem + n.sq * SizeofUnsigned + n.cq * SizeofUnsigned),
                m2, [r2 EXCEPT !.cq_ring_ptr = r2.sq_ring_ptr],
                [p EXCEPT !.sq_user_addr = r2.sq_sqes,
                          !.cq_user_addr = r2.sq_ring_ptr])
        Second(n, sqes_mem, b, r1, bsz) ==
            IF IS_ERR(b.ptr)
            THEN Out(b.ptr, uring_munmap(b.m, r1.sq_sqes, bsz), r1, p)
            ELSE Done(n, sqes_mem, memset0(b.m, b.ptr, bsz),
                      [r1 EXCEPT !.sq_ring_ptr = b.ptr, !.sq_ring_sz = bsz,
                                 !.cq_ring_sz = 0])
        Layout(n, sqes_mem, ring_mem, m1, r1, bsz) ==
            IF sqes_mem + ring_mem <= bsz
            THEN Done(n, sqes_mem, m1,
                      [r1 EXCEPT !.sq_ring_ptr = r1.sq_sqes + sqes_mem,
                                 !.cq_ring_sz = 0, !.sq_ring_sz = 0])
            ELSE Second(n, sqes_mem, uring_mmap(m1, bsz, "ANON", env), r1, bsz)
        First(n, sqes_mem, ring_mem, a, bsz) ==
            IF IS_ERR(a.ptr) THEN Out(a.ptr, a.m, r, p)
            ELSE Layout(n, sqes_mem, ring_mem, memset0(a.m, a.ptr, bsz),
                        [r EXCEPT !.sq_sqes = a.ptr], bsz)
        Sized(n, sqes_mem, ring_mem) ==
            IF buf # 0
            THEN IF sqes_mem + ring_mem > buf_size THEN Out(-ENOMEM, m, r, p)
                 ELSE First(n, sqes_mem, ring_mem, [ptr |-> buf, m |-> m], buf_size)
            ELSE First(n, sqes_mem, ring_mem,
                       uring_mmap(m, huge_page_size, "ANON", env), huge_page_size)
        Negotiated(n) ==
            IF n.ret # 0 THEN Out(n.ret, m, r, p)
            ELSE Sized(n, PageUp(n.sq * SizeofSqe),
                       n.cq * SizeofCqe + n.sq * SizeofUnsigned)
    IN Negotiated(get_sq_cq_entries(entries, p, 0, 0))

---------------------------------------------------------------------------
(* Ring lifecycle *)

\* __io_uring_queue_init_params(entries, ring, p, buf, buf_size).
\* ring->flags holds the setup flags and is still zero when the creation
\* primitive returns; the caller-memory mark lives in ring->internal_flags.
__io_uring_queue_init_params(m, entries, p, buf, buf_size, env) ==
    LET nommap == "NO_MMAP" \in p.flags
        Record(ret, m1, r1, p1, fd) ==
            Out(ret, m1, [r1 EXCEPT !.features = p1.features, !.flags = p1.flags,
                                    !.ring_fd = fd], p1)
        AfterMmap(q, fd) ==
            IF q.ret # 0 THEN Out(q.ret, uring_close(q.m, fd), q.ring, q.p)
            ELSE Record(q.ret, q.m, q.ring, q.p, fd)
        AfterSetup(s, ret, r1) ==
            IF s.ret < 0
            THEN Out(s.ret,
                     IF nommap /\ "APP_MEM" \notin r1.flags
                     THEN io_uring_unmap_rings(
                              uring_munmap(s.m, r1.sq_sqes, huge_page_size), r1)
                     ELSE s.m,
                     r1, s.p)
            ELSE IF ~nommap
            THEN AfterMmap(io_uring_queue_mmap(s.m, s.ret, s.p, env), s.ret)
            ELSE Record(ret, s.m, io_uring_setup_ring_pointers(s.p, r1), s.p, s.ret)
        AfterAlloc(a) ==
            IF a.ret < 0 THEN a
            ELSE AfterSetup(____sys_io_uring_setup(a.m, entries, a.p, env), a.ret,
                            IF nommap /\ buf # 0
                            THEN [a.ring EXCEPT !.internal_flags = @ \cup {"APP_MEM"}]
                            ELSE a.ring)
    IN AfterAlloc(IF nommap
                  THEN io_uring_alloc_huge(m, entries, p, ZeroRing, buf, buf_size, env)
                  ELSE Out(0, m, ZeroRing, p))

\* io_uring_queue_init_mem(entries, ring, p, buf, buf_size)
io_uring_queue_init_mem(m, entries, p, buf, buf_size, env) ==
    __io_uring_queue_init_params(m, entries,
                                 [p EXCEPT !.flags = @ \cup {"NO_MMAP"}],
                                 buf, buf_size, env)

io_uring_queue_init_params_raw(m, entries, p, env) ==
    __io_uring_queue_init_params(m, entries, p, 0, 0, env)

\* io_uring_queue_init_params(entries, ring, p)
io_uring_queue_init_params(m, entries, p, env) ==
    LET Ret(q) == [q EXCEPT !.ret = IF q.ret >= 0 THEN 0 ELSE q.ret]
    IN Ret(__io_uring_queue_init_params(m, entries, p, 0, 0, env))

\* io_uring_queue_init(entries, ring, flags)
io_uring_queue_init(m, entries, flags, env) ==
    io_uring_queue_init_params(m, entries, Params(flags, 0), env)

io_uring_queue_exit_rings_first(m, r, garbage) ==
    LET Unmapped(m1) ==
            uring_close(uring_munmap(m1, r.sq_sqes,
                                     Deref(m1, r.sq_kring_entries, garbage)
                                       * SizeofSqe),
                        r.ring_fd)
    IN Unmapped(io_uring_unmap_rings(m, r))

\* io_uring_queue_exit(ring); garbage is what *sq->kring_entries yields if
\* the word is not resident
io_uring_queue_exit(m, r, garbage) ==
    IF r.sq_ring_sz = 0
    THEN io_uring_unmap_rings(
             uring_munmap(uring_close(m, r.ring_fd), r.sq_sqes, huge_page_size), r)
    ELSE uring_close(
             IF "APP_MEM" \notin r.internal_flags
             THEN io_uring_unmap_rings(
                      uring_munmap(m, r.sq_sqes,
                                   Deref(m, r.sq_kring_entries, garbage) * SizeofSqe),
                      r)
             ELSE m,
             r.ring_fd)

---------------------------------------------------------------------------
(* Feature probe and memlock estimator *)

\* io_uring_register_probe(ring, probe, 256): the feature-query primitive;
\* env.qerr is its error (0: none), env.ops the operations it reports
io_uring_register_probe(m, r, probe, env) ==
    IF env.qerr # 0 THEN [ret |-> -env.qerr, m |-> Log(m, Call("query", -env.qerr, 0, "fd"))]
    ELSE [ret |-> 0,
          m |-> Log([m EXCEPT !.heap = {IF b.id = probe THEN [b EXCEPT !.ops = env.ops]
                                        ELSE b : b \in @}],
                    Call("query", r.ring_fd, env.ops, "fd"))]

\* the lowest block id not in use
FreeBlock(heap) == CHOOSE i \in 1..(1 + Cardinality(heap)) : \A b \in heap : b.id # i

Allocated(m, id) ==
    [ptr |-> id,
     m |-> Log([m EXCEPT !.heap = @ \cup {[id |-> id, ops |-> 0]}],
               Call("malloc", id, 0, "heap"))]

\* malloc(len): env.nomem makes it return NULL
malloc(m, env) ==
    IF env.nomem THEN [ptr |-> 0, m |-> Log(m, Call("malloc", 0, 0, "heap"))]
    ELSE Allocated(m, FreeBlock(m.heap))

\* free(ptr)
free(m, ptr) ==
    Log([m EXCEPT !.heap = {b \in @ : b.id # ptr}], Call("free", ptr, 0, "heap"))

\* io_uring_get_probe_ring(ring)
io_uring_get_probe_ring(m, r, env) ==
    LET Queried(q, probe) ==
            IF q.ret >= 0 THEN [probe |-> probe, m |-> q.m]
            ELSE [probe |-> 0, m |-> free(q.m, probe)]
        Got(a) ==
            IF a.ptr = 0 THEN [probe |-> 0, m |-> a.m]
            ELSE Queried(io_uring_register_probe(a.m, r, a.ptr, env), a.ptr)
    IN Got(malloc(m, env))

io_uring_get_probe_noexit(m, env) ==
    LET Probed(g, r) == [probe |-> g.probe, m |-> g.m]
        Inited(q) ==
            IF q.ret < 0 THEN [probe |-> 0, m |-> q.m]
            ELSE Probed(io_uring_get_probe_ring(q.m, q.ring, env), q.ring)
    IN Inited(io_uring_queue_init(m, 2, {}, env))

\* io_uring_get_probe(void)
io_uring_get_probe(m, env) ==
    LET Probed(g, r) ==
            [probe |-> g.probe, m |-> io_uring_queue_exit(g.m, r, env.garbage)]
        Inited(q) ==
            IF q.ret < 0 THEN [probe |-> 0, m |-> q.m]
            ELSE Probed(io_uring_get_probe_ring(q.m, q.ring, env), q.ring)
    IN Inited(io_uring_queue_init(m, 2, {}, env))

\* io_uring_free_probe(probe)
io_uring_free_probe(m, probe) == free(m, probe)

\* the tail of io_uring_mlock_size_params: depth validation and layout
MlockCount(entries, p, m1, lp) ==
    LET Counted(c) ==
            IF c.ret # 0 THEN [ret |-> c.ret, m |-> m1, lp |-> lp]
            ELSE [ret |-> rings_size(c.sq, c.cq, PageSize), m |-> m1, lp |-> lp]
    IN IF entries = 0 THEN [ret |-> -EINVAL, m |-> m1, lp |-> lp]
       ELSE IF entries > KERN_MAX_ENTRIES /\ "CLAMP" \notin p.flags
       THEN [ret |-> -EINVAL, m |-> m1, lp |-> lp]
       ELSE Counted(get_sq_cq_entries(IF entries > KERN_MAX_ENTRIES
                                      THEN KERN_MAX_ENTRIES ELSE entries, p, 0, 0))

io_uring_mlock_size_params_nofeat(m, entries, p, env) ==
    LET Probed(q) ==
            MlockCount(entries, p,
                       IF q.ret = 0 THEN io_uring_queue_exit(q.m, q.ring, env.garbage)
                       ELSE q.m,
                       q.p)
    IN Probed(io_uring_queue_init_params(m, entries, Params({}, 0), env))

\* io_uring_mlock_size_params(entries, p); lp is the throwaway ring's params
io_uring_mlock_size_params(m, entries, p, env) ==
    LET Exited(m1, lp) ==
            IF "NATIVE_WORKERS" \in lp.features THEN [ret |-> 0, m |-> m1, lp |-> lp]
            ELSE MlockCount(entries, p, m1, lp)
        Probed(q) ==
            Exited(IF q.ret = 0 THEN io_uring_queue_exit(q.m, q.ring, env.garbage)
                   ELSE q.m,
                   q.p)
    IN Probed(io_uring_queue_init_params(m, entries, Params({}, 0), env))

---------------------------------------------------------------------------
(* Inputs *)

MaxLiveProbes == 2      \* reports the application holds at once

Handles == {1, 2}

Depths == (0..MaxSmallDepth) \cup {128, 16384, KERN_MAX_ENTRIES, KERN_MAX_ENTRIES + 1}
CqDepths == {0, 2, KERN_MAX_CQ_ENTRIES, KERN_MAX_CQ_ENTRIES + 1}
UserFlags == SUBSET {"CLAMP", "CQSIZE", "NO_MMAP"}
NegFlags == SUBSET {"CLAMP", "CQSIZE"}
Features == SUBSET {"SINGLE_MMAP", "NATIVE_WORKERS"}

NegDepths == Depths \cup {2 ^ k + d : k \in 2..16, d \in {-1, 0, 1}}
NegCqDepths == CqDepths \cup {2 ^ k + d : k \in {2, 15, 16}, d \in {-1, 0, 1}}

\* depths negotiation can produce, and page sizes of the hosts
LayoutDepths == {2 ^ k : k \in 0..15}
LayoutCqDepths == {2 ^ k : k \in 0..16}
PageSizes == {PageSize, 4 * PageSize, 16 * PageSize}

\* the cq_entries field matters only with IORING_SETUP_CQSIZE
CqChoices(flags, set) == IF "CQSIZE" \in flags THEN set ELSE {0}

Env(serr, features, mfail, qerr, ops, nomem) ==
    [serr |-> serr, features |-> features, mfail |-> mfail, qerr |-> qerr,
     ops |-> ops, nomem |-> nomem, garbage |-> 0]

\* host outcomes of an init: creation error, or feature bits and the
\* refused mmap call (0: none)
InitEnvs ==
    {Env(ENOMEM, {}, 0, 0, 0, FALSE)}
    \cup {Env(0, f, k, 0, 0, FALSE) : f \in Features, k \in 0..3}

\* host outcomes of an init on caller memory, which makes no mmap call
MemEnvs ==
    {Env(ENOMEM, {}, 0, 0, 0, FALSE)} \cup {Env(0, f, 0, 0, 0, FALSE) : f \in Features}

\* host outcomes of a probe: those of its init, then malloc and the query
ProbeEnvs ==
    InitEnvs
    \cup {Env(0, f, 0, EINVAL, 0, FALSE) : f \in Features}
    \cup {Env(0, f, 0, 0, 0, TRUE) : f \in Features}
    \cup {Env(0, f, 0, 0, n, FALSE) : f \in Features, n \in 0..MaxProbeOps}

---------------------------------------------------------------------------
(* State *)

CallerBuffer == [lo |-> BufBase, hi |-> BufBase + BufSize, own |-> "caller"]

NoPlace == [buf |-> 0, size |-> 0, ret |-> 0, sq |-> 0, cq |-> 0, flags |-> {}]

Idle == [op |-> "none", h |-> 0, ret |-> 0, entries |-> 0, flags |-> {},
         cq_entries |-> 0, probe |-> 0, features |-> {}, calls |-> <<>>,
         fault |-> FALSE]

NegIdle == [done |-> TRUE, entries |-> 0, flags |-> {}, cq_entries |-> 0,
            sq0 |-> 0, cq0 |-> 0, ret |-> 0, sq |-> 0, cq |-> 0,
            page_size |-> PageSize]

Machine0 == [mem |-> {CallerBuffer}, words |-> {}, fds |-> {}, heap |-> {}]

\* the machine an entry point starts on, with an empty call log
Start == [mem |-> mach.mem, words |-> mach.words, fds |-> mach.fds,
          heap |-> mach.heap, calls |-> <<>>]

Stop(m) == [mem |-> m.mem, words |-> m.words, fds |-> m.fds, heap |-> m.heap]

InitLife ==
    /\ ring = [h \in Handles |-> ZeroRing]
    /\ status = [h \in Handles |-> "uninit"]
    /\ place = [h \in Handles |-> NoPlace]
    /\ trace = [h \in Handles |-> <<>>]
    /\ mach = Machine0
    /\ last = Idle

Init == InitLife /\ neg = NegIdle

\* a struct io_uring is initialised once
CanInit(h) == status[h] = "uninit"

Finish(h, op, q, entries, p, buf, size) ==
    /\ ring' = [ring EXCEPT ![h] = q.ring]
    /\ status' = [status EXCEPT ![h] = IF q.ret >= 0 THEN "ready" ELSE "failed"]
    /\ place' = [place EXCEPT ![h] =
                   [buf |-> buf, size |-> size, ret |-> q.ret,
                    sq |-> q.p.sq_entries, cq |-> q.p.cq_entries,
                    flags |-> q.p.flags]]
    /\ trace' = [trace EXCEPT ![h] = q.m.calls]
    /\ mach' = Stop(q.m)
    /\ last' = [Idle EXCEPT !.op = op, !.h = h, !.ret = q.ret, !.entries = entries,
                            !.flags = p.flags, !.cq_entries = p.cq_entries,
                            !.calls = q.m.calls]
    /\ UNCHANGED neg


\* where the application places the next ring in its buffer: behind the
\* ring that already lives there (at the byte count its init returned)
PackOffset(h) ==
    LET live == {g \in Handles \ {h} :
                   status[g] = "ready" /\ "APP_MEM" \in ring[g].internal_flags}
    IN IF live = {} THEN 0
       ELSE LET g == CHOOSE x \in live : \A y \in live : place[y].buf <= place[x].buf
            IN place[g].buf + place[g].ret - BufBase

---------------------------------------------------------------------------
(* Entry points as actions *)

QueueInitParams(h) ==
    /\ CanInit(h)
    /\ \E entries \in Depths, flags \in UserFlags, env \in InitEnvs :
         \E cq \in CqChoices(flags, CqDepths) :
           LET p == Params(flags, cq)
           IN Finish(h, "init_params",
                     io_uring_queue_init_params(Start, entries, p, env),
                     entries, p, 0, 0)

QueueInit(h) ==
    /\ CanInit(h)
    /\ \E entries \in Depths, flags \in UserFlags, env \in InitEnvs :
         Finish(h, "init", io_uring_queue_init(Start, entries, flags, env),
                entries, Params(flags, 0), 0, 0)

QueueInitMem(h) ==
    /\ CanInit(h)
    /\ CallerBuffer \in mach.mem
    /\ \E entries \in Depths, flags \in NegFlags, env \in MemEnvs :
         \E cq \in CqChoices(flags, CqDepths) :
           LET p == Params(flags, cq)
               off == PackOffset(h)
           IN /\ Finish(h, "init_mem",
                        io_uring_queue_init_mem(Start, entries, p, BufBase + off,
                                                BufSize - off, env),
                        entries, p, BufBase + off, BufSize - off)

\* the application creates the ring itself and maps it with
\* io_uring_queue_mmap
Mmapped(h, s, entries, p, env) ==
    /\ s.ret >= 0
    /\ Finish(h, "queue_mmap", io_uring_queue_mmap(s.m, s.ret, s.p, env),
              entries, p, 0, 0)

QueueMmap(h) ==
    /\ CanInit(h)
    /\ \E entries \in Depths, flags \in NegFlags, env \in InitEnvs :
         \E cq \in CqChoices(flags, CqDepths) :
           Mmapped(h, ____sys_io_uring_setup(Start, entries, Params(flags, cq), env),
                   entries, Params(flags, cq), env)

Advised(h, d) ==
    /\ mach' = Stop(d.m)
    /\ last' = [Idle EXCEPT !.op = "dontfork", !.h = h, !.ret = d.ret,
                            !.calls = d.m.calls, !.fault = d.fault]
    /\ UNCHANGED <<ring, status, place, trace, neg>>

RingDontfork(h) ==
    /\ status[h] \in {"uninit", "ready", "failed"}
    /\ \E afail \in 0..3, trap \in BOOLEAN, garbage \in {0, 1} :
         Advised(h, io_uring_ring_dontfork(Start, ring[h], afail,
                                           [trap |-> trap, garbage |-> garbage]))

Exited(h, m) ==
    /\ mach' = Stop(m)
    /\ trace' = [trace EXCEPT ![h] = @ \o m.calls]
    /\ last' = [Idle EXCEPT !.op = "exit", !.h = h, !.calls = m.calls]
    /\ status' = [status EXCEPT ![h] = "exited"]
    /\ UNCHANGED <<ring, place, neg>>

QueueExit(h) ==
    /\ status[h] = "ready"
    /\ \E garbage \in {0, 1} : Exited(h, io_uring_queue_exit(Start, ring[h], garbage))

Returned(op, g, probe) ==
    /\ mach' = Stop(g.m)
    /\ last' = [Idle EXCEPT !.op = op, !.probe = probe, !.calls = g.m.calls]
    /\ UNCHANGED <<ring, status, place, trace, neg>>

Probed(g) == Returned("get_probe", g, g.probe)

GetProbe ==
    /\ Cardinality(mach.heap) < MaxLiveProbes
    /\ \E env \in ProbeEnvs : Probed(io_uring_get_probe(Start, env))

FreeProbe ==
    \E b \in mach.heap :
        Returned("free_probe", [m |-> io_uring_free_probe(Start, b.id)], b.id)

\* the caller's arguments are neg.entries, neg.flags and neg.cq_entries
Estimated(q) ==
    /\ mach' = Stop(q.m)
    /\ last' = [Idle EXCEPT !.op = "mlock_size", !.ret = q.ret,
                            !.entries = neg.entries, !.flags = neg.flags,
                            !.cq_entries = neg.cq_entries,
                            !.features = q.lp.features,
                            !.calls = q.m.calls]
    /\ neg' = [neg EXCEPT !.done = TRUE, !.ret = q.ret]
    /\ UNCHANGED <<ring, status, place, trace>>

MlockSizeParams ==
    /\ ~neg.done
    /\ \E env \in InitEnvs :
         Estimated(io_uring_mlock_size_params(Start, neg.entries,
                                              Params(neg.flags, neg.cq_entries), env))

Negotiated(n) ==
    /\ neg' = [neg EXCEPT !.done = TRUE, !.ret = n.ret, !.sq = n.sq, !.cq = n.cq]
    /\ UNCHANGED <<ring, status, place, trace, mach, last>>

Negotiate ==
    /\ ~neg.done
    /\ Negotiated(get_sq_cq_entries(neg.entries, Params(neg.flags, neg.cq_entries),
                                    neg.sq0, neg.cq0))

\* rings_size on the depths neg.entries, neg.cq_entries and neg.page_size
RingsSize ==
    /\ ~neg.done
    /\ neg' = [neg EXCEPT !.done = TRUE,
                          !.ret = rings_size(neg.entries, neg.cq_entries,
                                             neg.page_size)]
    /\ UNCHANGED <<ring, status, place, trace, mach, last>>

---------------------------------------------------------------------------
(* Specifications *)

\* one ring handle: init, init on the caller's buffer, exit
Next ==
    \E h \in {1} :
        QueueInit(h) \/ QueueInitParams(h) \/ QueueInitMem(h) \/ QueueExit(h)

Spec == Init /\ [][Next]_vars

\* two ring handles packed into the caller's buffer
NextPack == \E h \in Handles : QueueInitMem(h) \/ QueueExit(h)

SpecPack == Init /\ [][NextPack]_vars

\* one ring handle, mapped by the library or by the application, and the
\* fork-safety advice on it at any time
NextFork == \E h \in {1} : QueueInitParams(h) \/ QueueMmap(h) \/ RingDontfork(h)

SpecFork == Init /\ [][NextFork]_vars

\* the feature probe with its throwaway ring, and the release of reports
NextAux == GetProbe \/ FreeProbe

SpecAux == Init /\ [][NextAux]_vars

\* a request to a stateless routine, not yet served
Request(e, f, c, s0) ==
    [done |-> FALSE, entries |-> e, flags |-> f, cq_entries |-> c,
     sq0 |-> s0, cq0 |-> s0, ret |-> 0, sq |-> s0, cq |-> s0,
     page_size |-> PageSize]

\* depth negotiation applied to inputs drawn from bounded sets
InitNeg ==
    /\ InitLife
    /\ \E e \in NegDepths, f \in NegFlags, s0 \in {0, 5} :
         \E c \in CqChoices(f, NegCqDepths) : neg = Request(e, f, c, s0)

SpecNeg == InitNeg /\ [][Negotiate]_vars

\* the layout calculator applied to the depths negotiation can produce and
\* to the page sizes of the supported hosts
InitLayout ==
    /\ InitLife
    /\ \E sq \in LayoutDepths, cq \in LayoutCqDepths, ps \in PageSizes :
         /\ cq >= sq
         /\ neg = [Request(sq, {}, cq, 0) EXCEPT !.page_size = ps]

SpecLayout == InitLayout /\ [][RingsSize]_vars

\* the memlock estimator applied to inputs drawn from bounded sets
InitMlock ==
    /\ InitLife
    /\ \E e \in Depths, f \in NegFlags :
         \E c \in CqChoices(f, CqDepths) : neg = Request(e, f, c, 0)

SpecMlock == InitMlock /\ [][MlockSizeParams]_vars

---------------------------------------------------------------------------
(* Vocabulary of the properties *)

Ops(calls, op) == {i \in DOMAIN calls : calls[i].op = op}

\* the mmap calls of a log that returned a mapping
Maps(calls) == {i \in Ops(calls, "mmap") : ~IS_ERR(calls[i].addr)}

\* [a, a + len) rounded to pages meets [lo, hi)
Meets(a, len, lo, hi) == len > 0 /\ a < hi /\ a + PageUp(len) > lo

\* some byte of the mapping made by call c is still resident
Resident(c) == \E r \in mach.mem : Meets(c.addr, c.len, r.lo, r.hi)

\* the munmap calls of a log that touch the application's buffer
BufferUnmaps(calls) ==
    {i \in Ops(calls, "munmap") :
       Meets(calls[i].addr, calls[i].len, BufBase, BufBase + BufSize)}

\* the descriptors the creation primitive returned in a log
Created(calls) == {calls[i].addr : i \in {j \in Ops(calls, "setup") : calls[j].addr >= 0}}

SetupFailed(calls) == \E i \in Ops(calls, "setup") : calls[i].addr < 0

MmapFailed(calls) == \E i \in Ops(calls, "mmap") : IS_ERR(calls[i].addr)

Closes(calls, fd) == {i \in Ops(calls, "close") : calls[i].addr = fd}

AppMem(h) == "APP_MEM" \in ring[h].internal_flags

NoMmap(h) == "NO_MMAP" \in place[h].flags

\* bytes a ring of depths (sq, cq) occupies from the start of its buffer
Occupied(sq, cq) == PageUp(sq * SizeofSqe) + cq * SizeofCqe + sq * SizeofUnsigned

---------------------------------------------------------------------------
(* C1: after a successful init on the caller's buffer and the exit of that *)
(* ring, no munmap call issued for the ring touches the caller's buffer.   *)
C1_ExitKeepsCallerBuffer ==
    \A h \in Handles :
        (status[h] = "exited" /\ AppMem(h)) => BufferUnmaps(trace[h]) = {}

(* C2: when ring creation fails in the no-kernel-mapping strategy, every   *)
(* region the call allocated is unmapped, the caller's buffer is never     *)
(* unmapped, and the creation error is returned unchanged.                 *)
C2_CreateFailureUnwinds ==
    \A h \in Handles :
        (status[h] = "failed" /\ NoMmap(h) /\ SetupFailed(trace[h])) =>
            /\ \A i \in Maps(trace[h]) : ~Resident(trace[h][i])
            /\ BufferUnmaps(trace[h]) = {}
            /\ CallerBuffer \in mach.mem
            /\ \E i \in Ops(trace[h], "setup") : place[h].ret = trace[h][i].addr

(* C3: a successful init of any strategy that allocates (kernel dual,      *)
(* kernel merged, self-allocated contiguous) followed by exit leaves no    *)
(* byte of any mapping of that init resident and the descriptor closed     *)
(* exactly once.                                                           *)
C3_RoundTripReleasesAll ==
    \A h \in Handles :
        (status[h] = "exited" /\ ~AppMem(h)) =>
            /\ \A i \in Maps(trace[h]) : ~Resident(trace[h][i])
            /\ Cardinality(Closes(trace[h], ring[h].ring_fd)) = 1
            /\ ring[h].ring_fd \notin mach.fds

(* C4: the byte count returned by a successful init on the caller's buffer *)
(* is a multiple of the page size and covers the bytes the ring occupies,  *)
(* so a ring placed at the returned offset neither overlaps nor zeroes     *)
(* the memory of the ring before it.                                       *)
C4_ReturnedBytesCoverRing ==
    \A h \in Handles :
        (status[h] = "ready" /\ AppMem(h)) =>
            /\ place[h].ret % PageSize = 0
            /\ place[h].ret >= Occupied(place[h].sq, place[h].cq)
            /\ \A g \in Handles \ {h} :
                 (status[g] = "ready" /\ AppMem(g) /\ place[g].buf > place[h].buf) =>
                     /\ place[g].buf >= place[h].buf + Occupied(place[h].sq, place[h].cq)
                     /\ \A i \in Ops(trace[g], "memset") :
                          ~(trace[g][i].addr < place[h].buf
                                                 + Occupied(place[h].sq, place[h].cq)
                            /\ trace[g][i].addr + trace[g][i].len > place[h].buf)

---------------------------------------------------------------------------
\* the munmap calls of a log that undo exactly the mapping made by call c
Undo(calls, c) ==
    {i \in Ops(calls, "munmap") : calls[i].addr = c.addr /\ calls[i].len = c.len}

RingMaps(calls) == {i \in Maps(calls) : calls[i].kind \in {"SQ_RING", "CQ_RING"}}

\* the munmap calls of a log aimed at a ring region of ring r
RingUnmaps(calls, r) ==
    {i \in Ops(calls, "munmap") : calls[i].addr \in {r.sq_ring_ptr, r.cq_ring_ptr}}

Single(h) == "SINGLE_MMAP" \in ring[h].features

(* C5: when a mapping call of io_uring_mmap fails, every mapping that call *)
(* had established is unmapped exactly once and none stays resident, the   *)
(* host error is returned, and the created descriptor is closed exactly    *)
(* once.                                                                   *)
C5_MmapFailureUnwinds ==
    \A h \in Handles :
        (status[h] = "failed" /\ ~NoMmap(h) /\ MmapFailed(trace[h])) =>
            /\ \A i \in Maps(trace[h]) :
                 /\ ~Resident(trace[h][i])
                 /\ Cardinality(Undo(trace[h], trace[h][i])) = 1
            /\ Cardinality(Ops(trace[h], "munmap")) = Cardinality(Maps(trace[h]))
            /\ \E i \in Ops(trace[h], "mmap") :
                 IS_ERR(trace[h][i].addr) /\ place[h].ret = trace[h][i].addr
            /\ \A fd \in Created(trace[h]) :
                 Cardinality(Closes(trace[h], fd)) = 1 /\ fd \notin mach.fds
            /\ Cardinality(Created(trace[h])) = 1

\* the second of two ring-region mappings was refused, or the entry array
\* after both ring regions were mapped
C5_Witness ==
    \E h \in Handles :
        /\ status[h] = "failed" /\ ~NoMmap(h) /\ MmapFailed(trace[h])
        /\ Cardinality(Maps(trace[h])) = 2
        /\ mach.mem = {CallerBuffer}

(* C6: with the single-mapping capability the completion base equals the   *)
(* submission base and init plus exit make one ring-region mapping call    *)
(* and one ring-region unmap call; without it, two of each.  The entry     *)
(* array is mapped and unmapped once more in both cases.                   *)
C6_MergedMappingPairs ==
    \A h \in Handles :
        (status[h] \in {"ready", "exited"} /\ ~NoMmap(h)) =>
            LET n == IF Single(h) THEN 1 ELSE 2
            IN /\ Single(h) <=> ring[h].cq_ring_ptr = ring[h].sq_ring_ptr
               /\ Cardinality(RingMaps(trace[h])) = n
               /\ Cardinality(Maps(trace[h])) = n + 1
               /\ status[h] = "ready" => Ops(trace[h], "munmap") = {}
               /\ status[h] = "exited" =>
                    /\ Cardinality(RingUnmaps(trace[h], ring[h])) = n
                    /\ Cardinality(Ops(trace[h], "munmap")) = n + 1

C6_Witness ==
    \E h \in Handles :
        /\ status[h] = "exited" /\ ~NoMmap(h) /\ Single(h)
        /\ Cardinality(RingUnmaps(trace[h], ring[h])) = 1

(* C7: submission-depth negotiation: depth 0 fails with -EINVAL; a depth   *)
(* in 1..KERN_MAX_ENTRIES yields the smallest power of two not below it;   *)
(* a depth above the ceiling fails with -EINVAL without the clamp flag and *)
(* yields the ceiling with it.  (Without an explicit completion size the   *)
(* call succeeds in each accepted case.)                                   *)
C7_SubmissionDepth ==
    neg.done =>
        LET d == neg.entries
            clamp == "CLAMP" \in neg.flags
        IN /\ d = 0 => neg.ret = -EINVAL
           /\ (d > KERN_MAX_ENTRIES /\ ~clamp) => neg.ret = -EINVAL
           /\ (1 <= d /\ d <= KERN_MAX_ENTRIES /\ neg.ret = 0) => neg.sq = Pow2Ceil(d)
           /\ (d > KERN_MAX_ENTRIES /\ clamp /\ neg.ret = 0) => neg.sq = KERN_MAX_ENTRIES
           /\ (d >= 1 /\ (d <= KERN_MAX_ENTRIES \/ clamp) /\ "CQSIZE" \notin neg.flags)
                => neg.ret = 0
           /\ neg.ret \in {0, -EINVAL}

C7_Witness ==
    /\ neg.done /\ neg.ret = 0
    /\ neg.entries = 2 ^ 14 + 1 /\ neg.sq = KERN_MAX_ENTRIES

(* C8: whenever negotiation succeeds, both produced depths are powers of   *)
(* two and the completion depth is not below the submission depth.         *)
C8_DepthInvariant ==
    (neg.done /\ neg.ret = 0) =>
        /\ neg.sq \in Pow2s
        /\ neg.cq \in Pow2s
        /\ neg.cq >= neg.sq

C8_Witness ==
    /\ neg.done /\ neg.ret = 0
    /\ {"CQSIZE", "CLAMP"} \subseteq neg.flags
    /\ neg.cq_entries > KERN_MAX_CQ_ENTRIES /\ neg.entries > KERN_MAX_ENTRIES

(* C9: io_uring_get_probe leaks neither its ring nor its report buffer:    *)
(* every descriptor it created is closed exactly once and no mapping of    *)
(* its ring stays resident; it returns NULL exactly when no query          *)
(* succeeded and a report when the query succeeded, whatever the number of *)
(* operations reported; a buffer allocated for a failed query is freed.    *)
C9_ProbeLeaksNothing ==
    last.op = "get_probe" =>
        LET calls == last.calls
            queried == \E i \in Ops(calls, "query") : calls[i].addr >= 0
        IN /\ \A fd \in Created(calls) : Cardinality(Closes(calls, fd)) = 1
           /\ Cardinality(Ops(calls, "close")) = Cardinality(Created(calls))
           /\ mach.fds = {}
           /\ \A i \in Maps(calls) : ~Resident(calls[i])
           /\ mach.mem = {CallerBuffer}
           /\ (last.probe # 0) <=> queried
           /\ (SetupFailed(calls) \/ MmapFailed(calls)) => last.probe = 0
           /\ last.probe # 0 => \E b \in mach.heap : b.id = last.probe
           /\ \A i \in Ops(calls, "malloc") :
                (calls[i].addr # 0 /\ calls[i].addr # last.probe) =>
                    \E j \in Ops(calls, "free") : j > i /\ calls[j].addr = calls[i].addr
           /\ last.probe = 0 =>
                Cardinality(Ops(calls, "free"))
                  = Cardinality({i \in Ops(calls, "malloc") : calls[i].addr # 0})

\* a report of zero supported operations is returned, the ring exited
C9_Witness ==
    /\ last.op = "get_probe" /\ last.probe # 0
    /\ \E b \in mach.heap : b.id = last.probe /\ b.ops = 0
    /\ Created(last.calls) # {} /\ mach.fds = {}

(* C10: io_uring_mlock_size_params returns 0 whenever its throwaway ring   *)
(* reports the native-workers feature; otherwise, when it does not fail,   *)
(* it returns rings_size of the depths get_sq_cq_entries produces for the  *)
(* caller's depth and flags; a failure to create the throwaway ring is not *)
(* returned as an error.                                                   *)
C10_MlockSize ==
    last.op = "mlock_size" =>
        LET n == get_sq_cq_entries(last.entries, Params(last.flags, last.cq_entries),
                                   0, 0)
        IN /\ "NATIVE_WORKERS" \in last.features => last.ret = 0
           /\ ("NATIVE_WORKERS" \notin last.features /\ n.ret = 0) =>
                  last.ret = rings_size(n.sq, n.cq, PageSize)
           /\ ("NATIVE_WORKERS" \notin last.features /\ n.ret # 0) => last.ret = -EINVAL
           /\ last.ret >= 0 \/ last.ret = -EINVAL

\* the throwaway ring could not be created and the byte count is returned
C10_Witness ==
    /\ last.op = "mlock_size" /\ last.ret > 0
    /\ SetupFailed(last.calls) /\ last.entries = 3

---------------------------------------------------------------------------
\* the depth-validation rules: what makes a (depth, flags, cq size) invalid
Rejects(e, flags, c) ==
    LET clamp == "CLAMP" \in flags
        sq == Pow2Ceil(IF e > KERN_MAX_ENTRIES THEN KERN_MAX_ENTRIES ELSE e)
    IN \/ e = 0
       \/ e > KERN_MAX_ENTRIES /\ ~clamp
       \/ /\ "CQSIZE" \in flags
          /\ \/ c = 0
             \/ c > KERN_MAX_CQ_ENTRIES /\ ~clamp
             \/ Pow2Ceil(IF c > KERN_MAX_CQ_ENTRIES THEN KERN_MAX_CQ_ENTRIES ELSE c) < sq

(* C11 as stated: io_uring_mlock_size_params fails with -EINVAL for        *)
(* exactly the inputs the depth validation rejects, whatever the           *)
(* throwaway ring reported.                                                *)
C11_MlockRejectsAlways ==
    last.op = "mlock_size" =>
        (last.ret = -EINVAL <=> Rejects(last.entries, last.flags, last.cq_entries))

(* C11 amended: io_uring_mlock_size_params fails with -EINVAL for exactly  *)
(* the inputs the depth validation rejects when the throwaway ring did not *)
(* report the native-workers feature; when it did, the call returns 0      *)
(* before any validation, also for inputs the validation rejects.          *)
C11_MlockRejects ==
    last.op = "mlock_size" =>
        /\ "NATIVE_WORKERS" \notin last.features =>
              (last.ret = -EINVAL <=> Rejects(last.entries, last.flags, last.cq_entries))
        /\ "NATIVE_WORKERS" \in last.features => last.ret = 0

\* an explicit completion size below the submission depth is rejected after
\* the throwaway ring was created and exited
C11_Witness ==
    /\ last.op = "mlock_size" /\ last.ret = -EINVAL
    /\ Created(last.calls) # {} /\ "NATIVE_WORKERS" \notin last.features
    /\ last.entries = 3 /\ last.cq_entries = 2

\* a ring descriptor was created by the init of h and left open
Opened(h) == \E fd \in Created(trace[h]) : Closes(trace[h], fd) = {}

(* C12: io_uring_queue_init and io_uring_queue_init_params return 0 on     *)
(* every successful initialisation and a negative value on every failure,  *)
(* never a positive value, for every flag combination including NO_MMAP.   *)
C12_InitReturnsZero ==
    \A h \in Handles :
        (last.h = h /\ last.op \in {"init", "init_params"}) =>
            /\ last.ret <= 0
            /\ last.ret = 0 <=> Opened(h)
            /\ last.ret = 0 => ring[h].ring_fd \in mach.fds
            /\ last.ret < 0 => mach.fds = {}

\* a ring on self-allocated contiguous memory, whose inner routine reports
\* the bytes used
C12_Witness ==
    \E h \in Handles :
        /\ last.h = h /\ last.op = "init" /\ last.ret = 0
        /\ NoMmap(h) /\ Opened(h) /\ Maps(trace[h]) # {}

---------------------------------------------------------------------------
\* the mapping of handle h is not complete: the handle is zeroed, or a
\* mapping call of its io_uring_queue_mmap / init was refused
Incomplete(h) ==
    \/ ring[h] = ZeroRing
    \/ status[h] = "failed" /\ ~NoMmap(h) /\ MmapFailed(trace[h])

(* C13: io_uring_ring_dontfork on a handle whose mapping is not complete   *)
(* fails with -EINVAL, issues no madvise call and reads no ring word.      *)
C13_DontforkTooEarly ==
    \A h \in Handles :
        (last.op = "dontfork" /\ last.h = h /\ Incomplete(h)) =>
            /\ last.ret = -EINVAL
            /\ ~last.fault
            /\ Ops(last.calls, "madvise") = {}
            /\ Ops(last.calls, "load") = {}

---------------------------------------------------------------------------
CeilDiv(a, b) == (a + b - 1) \div b

\* the completion region (header, entries, rounded to 64) and the entry array
RegionC(cq) == Align64(KRING_SIZE + cq * SizeofCqe)
RegionS(sq) == sq * SizeofSqe

(* C14 as stated: rings_size returns page_size * (ceil(C / page_size) +    *)
(* ceil(S / page_size)) with C the header plus the completion entries      *)
(* rounded to 64 and S the size of the submission entries.                 *)
C14_RingsSizeCeil ==
    neg.done =>
        neg.ret = neg.page_size * (CeilDiv(RegionC(neg.cq_entries), neg.page_size)
                                   + CeilDiv(RegionS(neg.entries), neg.page_size))

(* C14 amended: rings_size rounds the page count of each region up to a    *)
(* power of two: page_size * (pow2ceil(ceil(C / page_size)) +              *)
(* pow2ceil(ceil(S / page_size))).                                         *)
C14_RingsSize ==
    neg.done =>
        neg.ret = neg.page_size
                    * (Pow2Ceil(CeilDiv(RegionC(neg.cq_entries), neg.page_size))
                       + Pow2Ceil(CeilDiv(RegionS(neg.entries), neg.page_size)))

\* 512 completion entries need three pages of 4096 bytes and count as four
C14_Witness ==
    /\ neg.done /\ neg.entries = 256 /\ neg.cq_entries = 512
    /\ neg.page_size = PageSize /\ neg.ret = 8 * PageSize

---------------------------------------------------------------------------
\* ring h lives on contiguous memory with a separate ring-region allocation
TwoAllocations(h) == NoMmap(h) /\ ring[h].sq_ring_sz # 0

(* C15: the exit of a ring on self-owned contiguous memory with a separate *)
(* ring-region allocation releases the entry-array allocation with the     *)
(* fixed large-page size and then the ring-region allocation; a            *)
(* caller-owned ring releases nothing.                                     *)
C15_ContiguousTeardown ==
    \A h \in Handles :
        (status[h] = "exited" /\ TwoAllocations(h)) =>
            IF AppMem(h) THEN Ops(trace[h], "munmap") = {}
            ELSE \E i, j \in Ops(trace[h], "munmap") :
                   /\ i < j
                   /\ trace[h][i].addr = ring[h].sq_sqes
                   /\ trace[h][i].len = huge_page_size
                   /\ trace[h][j].addr = ring[h].sq_ring_ptr
                   /\ trace[h][j].len = ring[h].sq_ring_sz

---------------------------------------------------------------------------
(* C16: the exit of a kernel-mapped ring unmaps the entry array first,     *)
(* with the size given by the submission depth read from the still-mapped  *)
(* ring region, then the one or two ring regions, and closes the           *)
(* descriptor only after every unmap.                                      *)
C16_TeardownOrder ==
    \A h \in Handles :
        (status[h] = "exited" /\ ~NoMmap(h)) =>
            LET calls == trace[h]
                unmaps == Ops(calls, "munmap")
                rings == RingUnmaps(calls, ring[h])
            IN /\ \E i \in unmaps \ rings :
                    /\ calls[i].addr = ring[h].sq_sqes
                    /\ calls[i].len = place[h].sq * SizeofSqe
                    /\ \A j \in unmaps : j >= i
               /\ rings # {}
               /\ Cardinality(unmaps \ rings) = 1
               /\ \E k \in Ops(calls, "close") :
                    /\ calls[k].addr = ring[h].ring_fd
                    /\ Ops(calls, "close") = {k}
                    /\ \A j \in unmaps : j < k
                    /\ \A j \in Maps(calls) : j < k

\* two ring regions and an entry array of two entries
C16_Witness ==
    \E h \in Handles :
        /\ status[h] = "exited" /\ ~NoMmap(h) /\ ~Single(h)
        /\ place[h].sq = 2
        /\ Cardinality(Ops(trace[h], "munmap")) = 3

---------------------------------------------------------------------------
\* the depths negotiation produces for an accepted request
NegSq(e) == Pow2Ceil(IF e > KERN_MAX_ENTRIES THEN KERN_MAX_ENTRIES ELSE e)

NegCq(e, flags, c) ==
    IF "CQSIZE" \in flags
    THEN Pow2Ceil(IF c > KERN_MAX_CQ_ENTRIES THEN KERN_MAX_CQ_ENTRIES ELSE c)
    ELSE 2 * NegSq(e)

\* the last entry point was an init of handle h
InitOf(h) == last.h = h /\ last.op \in {"init", "init_params", "init_mem"}

\* the caller's buffer is too small for the ring the request describes
TooSmall(h) ==
    /\ place[h].buf # 0
    /\ ~Rejects(last.entries, last.flags, last.cq_entries)
    /\ Occupied(NegSq(last.entries), NegCq(last.entries, last.flags, last.cq_entries))
         > place[h].size

(* C17: in the no-kernel-mapping strategy, when the contiguous allocator   *)
(* fails (depth rejected, caller buffer too small, first or second         *)
(* anonymous allocation refused) the creation primitive is not invoked, no *)
(* allocation of the call stays resident, the caller's buffer is not       *)
(* unmapped, and the allocator's negative error is returned.               *)
C17_AllocatorFailsFirst ==
    \A h \in Handles :
        (InitOf(h) /\ NoMmap(h)
           /\ \/ Rejects(last.entries, last.flags, last.cq_entries)
              \/ TooSmall(h)
              \/ MmapFailed(trace[h])) =>
            /\ Ops(trace[h], "setup") = {}
            /\ \A i \in Maps(trace[h]) : ~Resident(trace[h][i])
            /\ BufferUnmaps(trace[h]) = {} /\ CallerBuffer \in mach.mem
            /\ last.ret < 0 /\ status[h] = "failed"
            /\ Rejects(last.entries, last.flags, last.cq_entries) => last.ret = -EINVAL
            /\ TooSmall(h) => last.ret = -ENOMEM
            /\ MmapFailed(trace[h]) =>
                 \E i \in Ops(trace[h], "mmap") :
                     IS_ERR(trace[h][i].addr) /\ last.ret = trace[h][i].addr

\* the second anonymous allocation was refused and the first one released
C17_Witness ==
    \E h \in Handles :
        /\ InitOf(h) /\ NoMmap(h) /\ MmapFailed(trace[h])
        /\ Cardinality(Maps(trace[h])) = 1
        /\ Cardinality(Ops(trace[h], "munmap")) = 1
        /\ last.ret = -ENOMEM /\ mach.mem = {CallerBuffer}

(* C20: with a caller-supplied buffer io_uring_alloc_huge never takes the  *)
(* branch that makes a second allocation: the init makes no mmap call and  *)
(* no munmap call before the creation primitive is invoked, and the ring   *)
(* it leaves has recorded ring-region sizes of zero and its ring region    *)
(* inside the caller's buffer.                                             *)
C20_CallerBufferOneRegion ==
    \A h \in Handles :
        (status[h] \in {"ready", "failed"} /\ place[h].buf # 0) =>
            /\ Ops(trace[h], "mmap") = {}
            /\ \A i \in Ops(trace[h], "munmap") :
                 \E j \in Ops(trace[h], "setup") : j < i
            /\ ring[h].sq_ring_sz = 0 /\ ring[h].cq_ring_sz = 0
            /\ status[h] = "ready" =>
                 /\ AppMem(h)
                 /\ ring[h].sq_sqes = place[h].buf
                 /\ ring[h].sq_ring_ptr > place[h].buf
                 /\ ring[h].sq_ring_ptr < place[h].buf + place[h].size

\* a ring of 128 entries on the caller's buffer
C20_Witness ==
    \E h \in Handles :
        /\ status[h] = "ready" /\ place[h].buf # 0 /\ place[h].sq = 128
        /\ Ops(trace[h], "memset") # {}

---------------------------------------------------------------------------
(* C18: completion-depth negotiation: without an explicit size the         *)
(* completion depth is twice the submission depth; an explicit size of 0   *)
(* fails with -EINVAL, one above KERN_MAX_CQ_ENTRIES fails with -EINVAL    *)
(* unless the clamp flag turns it into the ceiling; the size is rounded up *)
(* to a power of two and rejected with -EINVAL if that is below the        *)
(* submission depth; the outputs are written only on success.              *)
C18_CompletionDepth ==
    neg.done =>
        LET e == neg.entries
            c == neg.cq_entries
            clamp == "CLAMP" \in neg.flags
            explicit == "CQSIZE" \in neg.flags
            depthOk == e >= 1 /\ (e <= KERN_MAX_ENTRIES \/ clamp)
        IN /\ (neg.ret = 0 /\ ~explicit) => neg.cq = 2 * neg.sq
           /\ (explicit /\ c = 0) => neg.ret = -EINVAL
           /\ (explicit /\ c > KERN_MAX_CQ_ENTRIES /\ ~clamp) => neg.ret = -EINVAL
           /\ (explicit /\ depthOk /\ c >= 1 /\ (c <= KERN_MAX_CQ_ENTRIES \/ clamp)) =>
                IF NegCq(e, neg.flags, c) < NegSq(e)
                THEN neg.ret = -EINVAL
                ELSE neg.ret = 0 /\ neg.cq = NegCq(e, neg.flags, c)
           /\ (explicit /\ c > KERN_MAX_CQ_ENTRIES /\ neg.ret = 0) =>
                neg.cq = KERN_MAX_CQ_ENTRIES
           /\ neg.ret # 0 => (neg.sq = neg.sq0 /\ neg.cq = neg.cq0)

\* an explicit size of 2 is rounded to 2, below the submission depth 4, and
\* the outputs keep what they held
C18_Witness ==
    /\ neg.done /\ neg.ret = -EINVAL
    /\ neg.entries = 3 /\ neg.cq_entries = 2 /\ "CQSIZE" \in neg.flags
    /\ neg.sq0 = 5 /\ neg.sq = 5 /\ neg.cq = 5

(* C19: an init on the caller's buffer zeroes only bytes of the region the *)
(* ring is reported to consume, [buf, buf + returned byte count).          *)
C19_ZeroesOnlyOwnRegion ==
    \A h \in Handles :
        (status[h] = "ready" /\ AppMem(h)) =>
            \A i \in Ops(trace[h], "memset") :
                /\ trace[h][i].addr >= place[h].buf
                /\ trace[h][i].addr + trace[h][i].len <= place[h].buf + place[h].ret

=============================================================================
